---- MODULE Spec2Model ----
(***************************************************************************)
(* A state-machine model of etl.py: main() connects, runs process_data for *)
(* data/song_data with process_song_file and then for data/log_data with   *)
(* process_log_file, and closes the connection.  The state holds the       *)
(* files on disk (the input), the statements issued on the cursor, how far *)
(* they are committed, what was printed, and the position in the program.  *)
(***************************************************************************)
EXTENDS Integers, Sequences, FiniteSets, TLC

\* ------------------------------------------------------------------ bounds
MaxDepth == 1
MaxEntries == 3
MaxSongRecs == 2
MaxLogRecs == 2

\* ------------------------------------------------------- the input: names
\* A file or directory name is a sequence of tokens, so that the tests glob
\* makes on a name (leading dot, magic characters, suffix) can be computed.
None == "None"
DirNames == { <<"s">>, <<"[", "s", "]">>, <<"d", ".json">> }
FileNames == { <<"a", ".json">>, <<".", "h", ".json">>, <<"n", ".txt">> }

Parent(p) == SubSeq(p, 1, Len(p) - 1)
Last(p) == p[Len(p)]

RECURSIVE SeqsOfLen(_, _)
SeqsOfLen(S, k) ==
    IF k = 0 THEN { <<>> }
    ELSE { Append(s, e) : s \in SeqsOfLen(S, k - 1), e \in S }

SeqsUpTo(S, n) == UNION { SeqsOfLen(S, k) : k \in 0..n }

RECURSIVE SubsetsUpTo(_, _)
SubsetsUpTo(S, k) ==
    IF k <= 0 THEN { {} }
    ELSE LET smaller == SubsetsUpTo(S, k - 1)
         IN  smaller \cup UNION { { X \cup {e} : e \in S \ X } : X \in smaller }

\* All orders in which a listing of the set S can come back.
Perms(S) ==
    { s \in SeqsOfLen(S, Cardinality(S)) :
        \A a, b \in 1..Len(s) : a # b => s[a] # s[b] }

\* --------------------------------------------------- the input: records
SongRecord(sid, title, aid, aname, dur) ==
    [ song_id |-> sid, title |-> title, artist_id |-> aid,
      artist_name |-> aname, duration |-> dur, year |-> 0,
      artist_location |-> None, artist_latitude |-> None,
      artist_longitude |-> None ]

\* S1 and S3 are two songs of one artist with the same title and duration.
SongRecs ==
    { SongRecord("S1", "T1", "A1", "N1", 1),
      SongRecord("S2", "T1", "A2", "N2", 2),
      SongRecord("S3", "T1", "A1", "N1", 1) }

HourMs == 60 * 60 * 1000
DayMs == 24 * HourMs
TsA == DayMs + HourMs + 2 * 60000 + 3004
TsB == DayMs - 1

LogRecord(page, ts, song, artist, length) ==
    [ page |-> page, ts |-> ts, userId |-> "U1", firstName |-> "F",
      lastName |-> "L", gender |-> "G", level |-> "free",
      song |-> song, artist |-> artist, length |-> length,
      sessionId |-> 7, location |-> "loc", userAgent |-> "ua" ]

LogRecs ==
    { LogRecord("NextSong", TsA, "T1", "N1", 1),
      LogRecord("NextSong", TsB, "T1", "N2", 1),
      LogRecord("NextSong", TsB, "T1", "N2", 2),
      LogRecord("Home", TsB, None, None, 0) }

\* Offsets of local time from UTC, in milliseconds, of the machine running.
TzOffsets == { 0, HourMs, 0 - 5 * HourMs }

\* ----------------------------------------------------- the input: trees
\* A tree is [dirs, files]: dirs is a prefix-closed set of directory paths
\* relative to filepath (<<>> is filepath itself), files is a set of
\* [dir, name, content] with content the sequence of JSON lines of the file.
AllDirs == UNION { SeqsOfLen(DirNames, k) : k \in 1..MaxDepth }

DirSets ==
    { D \cup { <<>> } : D \in
        { X \in SubsetsUpTo(AllDirs, MaxEntries) :
            \A p \in X : Len(p) > 1 => Parent(p) \in X } }

WalkTrees(content) ==
    UNION { { [ dirs |-> D,
                files |-> { [ dir |-> e[1], name |-> e[2], content |-> content ]
                            : e \in F } ]
              : F \in SubsetsUpTo(D \X FileNames,
                                  MaxEntries - (Cardinality(D) - 1)) }
            : D \in DirSets }

OneFile(content) ==
    [ dirs |-> { <<>> },
      files |-> { [ dir |-> <<>>, name |-> <<"a", ".json">>, content |-> content ] } ]

TwoFiles(content, other) ==
    [ dirs |-> { <<>>, << <<"s">> >> },
      files |-> { [ dir |-> <<>>, name |-> <<"a", ".json">>, content |-> content ],
                  [ dir |-> << <<"s">> >>, name |-> <<"a", ".json">>,
                    content |-> other ] } ]

SongLine == CHOOSE r \in SongRecs : r.song_id = "S1"
LogLine == CHOOSE r \in LogRecs : r.page = "NextSong" /\ r.ts = TsA

\* Inputs that vary the shape of the song tree, and inputs that vary what
\* the files hold.
WalkInputs ==
    { [ song_data |-> t, log_data |-> l ] :
        t \in WalkTrees(<< SongLine >>),
        l \in { OneFile(<< LogLine >>), TwoFiles(<< LogLine >>, << LogLine >>) } }

DataInputs ==
    { [ song_data |-> t, log_data |-> OneFile(d) ] :
        t \in { OneFile(c) : c \in SeqsUpTo(SongRecs, MaxSongRecs) }
                \cup { TwoFiles(<< a >>, << b >>) : a, b \in SongRecs },
        d \in SeqsUpTo(LogRecs, MaxLogRecs) }

\* ------------------------------------------------------------- the state
VARIABLES
    fs,          \* the two directory trees on disk
    tz,          \* the machine's offset from UTC
    pc,          \* position in the program
    exc,         \* where an exception was raised ("none" if none)
    conn,        \* "none", "open" or "closed"
    closes,      \* number of conn.close() calls
    pass,        \* which process_data call of main is running
    stack,       \* directories os.walk has still to visit
    all_files,   \* process_data's all_files
    num_files,   \* process_data's num_files
    i,           \* process_data's enumerate index
    datafile,    \* the path passed to func
    df,          \* the dataframe of the running func
    idx,         \* row index of the running iterrows loop
    results,     \* what cur.fetchone() returned (<<>> for None)
    stmts,       \* every cur.execute issued, in order
    ncommitted,  \* how many of stmts are committed
    commits,     \* every conn.commit() made, in order
    out,         \* lines printed by process_data
    calls        \* every func(cur, datafile) call started, in order

vars == << fs, tz, pc, exc, conn, closes, pass, stack, all_files, num_files,
           i, datafile, df, idx, results, stmts, ncommitted, commits, out,
           calls >>

\* ------------------------------------------------------------------ main
Passes_logFirst ==
    << [ filepath |-> "log_data", func |-> "process_log_file" ],
       [ filepath |-> "song_data", func |-> "process_song_file" ] >>

Passes ==
    << [ filepath |-> "song_data", func |-> "process_song_file" ],
       [ filepath |-> "log_data", func |-> "process_log_file" ] >>

Tree(p) == fs[Passes[p].filepath]

\* ------------------------------------------------- os.walk and glob.glob
Subdirs(tree, d) == { p \in tree.dirs : Len(p) = Len(d) + 1 /\ Parent(p) = d }

IsDir(tree, path) == path \in tree.dirs

Names(tree, d) ==
    { f.name : f \in { g \in tree.files : g.dir = d } }
        \cup { Last(p) : p \in Subdirs(tree, d) }

IsHidden(nm) == nm[1] = "."

HasMagic(nm) == \E k \in 1..Len(nm) : nm[k] \in { "*", "?", "[" }

\* fnmatch of a name against the patterns this program can hand to glob:
\* "*" followed by literal text, a one-character class "[c]", literal text.
FnMatch(pat, nm) ==
    IF pat[1] = "*"
    THEN Len(nm) >= Len(pat) - 1
         /\ SubSeq(nm, Len(nm) - Len(pat) + 2, Len(nm)) = Tail(pat)
    ELSE IF Len(pat) = 3 /\ pat[1] = "[" /\ pat[3] = "]"
    THEN nm = << pat[2] >>
    ELSE nm = pat

\* A path component of a glob pattern: matched as a pattern (which skips
\* hidden names) when it holds magic characters, literally otherwise.
GlobComponent(pat, nm) ==
    IF HasMagic(pat) THEN ~IsHidden(nm) /\ FnMatch(pat, nm) ELSE nm = pat

JsonPattern == << "*", ".json" >>

\* glob.glob(os.path.join(root, '*.json')): root is not escaped, so each of
\* its components is itself a pattern.
Glob(tree, root) ==
    LET matchedDirs ==
            { e \in tree.dirs :
                /\ Len(e) = Len(root)
                /\ \A k \in 1..Len(root) : GlobComponent(root[k], e[k]) }
    IN  UNION { { Append(e, nm) :
                    nm \in { n \in Names(tree, e) : GlobComponent(JsonPattern, n) } }
                : e \in matchedDirs }

FileAt(tree, path) ==
    CHOOSE f \in tree.files : f.dir = Parent(path) /\ f.name = Last(path)

\* ----------------------------------------------------- process_song_file
SongData(frame) ==
    LET r == frame[1]
    IN  << r.song_id, r.title, r.artist_id, r.year, r.duration >>

ArtistData(frame) ==
    LET r == frame[1]
    IN  << r.artist_id, r.artist_name, r.artist_location,
           r.artist_latitude, r.artist_longitude >>

\* ------------------------------------------------------ process_log_file
FilterNextSong_keepAll(frame) == frame

FilterNextSong(frame) == SelectSeq(frame, LAMBDA r : r.page = "NextSong")

\* hour, minute, second, microsecond of a number of milliseconds in a day
TimeOfDay(ms) ==
    << ms \div HourMs, (ms \div 60000) % 60, (ms \div 1000) % 60,
       (ms % 1000) * 1000 >>

\* pd.to_datetime(ts, unit='ms') is the UTC date and time; the fields below
\* are those of a date in January 1970, which is where the modelled ts lie.
DtTime(ts) == TimeOfDay(ts % DayMs)
DtHour(ts) == (ts % DayMs) \div HourMs
DtDay(ts) == ts \div DayMs + 1
DtWeekOfYear(ts) == (ts \div DayMs + 3) \div 7 + 1
DtMonth(ts) == 1
DtYear(ts) == 1970
DtWeekday(ts) == (ts \div DayMs + 3) % 7

TimeRow(r) ==
    << DtTime(r.ts), DtHour(r.ts), DtDay(r.ts), DtWeekOfYear(r.ts),
       DtMonth(r.ts), DtYear(r.ts), DtWeekday(r.ts) >>

UserRow(r) == << r.userId, r.firstName, r.lastName, r.gender, r.level >>

\* datetime.datetime.fromtimestamp(ts / 1e3) is the local date and time;
\* strftime('%H:%M:%S.%f') keeps its hour, minute, second and microsecond.
StartTime(ts, offset) == TimeOfDay((ts + offset) % DayMs)

SongplayIds_halfSet(res) == IF res # <<>> THEN << res[1], None >> ELSE << None, None >>

SongplayIds(res) == IF res # <<>> THEN << res[1], res[2] >> ELSE << None, None >>

SongplayData(r, res, offset) ==
    << StartTime(r.ts, offset), r.userId, r.level, SongplayIds(res)[1],
       SongplayIds(res)[2], r.sessionId, r.location, r.userAgent >>

\* song_select of sql_queries: the (song_id, artist_id) of the songs joined
\* to their artist whose title, artist name and duration equal the
\* parameters.  The rows it sees are those inserted on this connection.
SongSelect(log, q) ==
    { << log[p[1]].args[1], log[p[2]].args[1] >> :
        p \in { pp \in (1..Len(log)) \X (1..Len(log)) :
                  /\ log[pp[1]].sql = "song_table_insert"
                  /\ log[pp[2]].sql = "artist_table_insert"
                  /\ log[pp[1]].args[3] = log[pp[2]].args[1]
                  /\ log[pp[1]].args[2] = q[1]
                  /\ log[pp[2]].args[2] = q[2]
                  /\ log[pp[1]].args[5] = q[3] } }

Stmt(sql, args, rec, res) ==
    [ sql |-> sql, args |-> args, pass |-> pass, call |-> i, rec |-> rec,
      result |-> res ]

\* ---------------------------------------------------------- control flow
\* Where process_data goes when func returns, and where main goes when a
\* process_data call returns.
FuncReturn_noCommit == "print"

FuncReturn == "commit"

AfterPass_closeEarly(p) == "close"

AfterPass(p) == IF p < Len(Passes) THEN "walk" ELSE "close"

\* An uncaught exception leaves process_data and main: nothing more runs.
Crash(where) == /\ pc' = "crashed"
                /\ exc' = where

ExecLabels ==
    { "song_insert", "artist_insert", "time_loop", "user_loop", "select",
      "songplay_insert" }

Init ==
    /\ \/ fs \in WalkInputs /\ tz = 0
       \/ fs \in DataInputs /\ tz \in TzOffsets
    /\ pc = "connect"
    /\ exc = "none"
    /\ conn = "none"
    /\ closes = 0
    /\ pass = 1
    /\ stack = <<>>
    /\ all_files = <<>>
    /\ num_files = 0
    /\ i = 0
    /\ datafile = <<>>
    /\ df = <<>>
    /\ idx = 1
    /\ results = <<>>
    /\ stmts = <<>>
    /\ ncommitted = 0
    /\ commits = <<>>
    /\ out = <<>>
    /\ calls = <<>>

\* main: connect, cursor, and the entry into the first process_data call
Connect ==
    /\ pc = "connect"
    /\ conn' = "open"
    /\ stack' = << <<>> >>
    /\ all_files' = <<>>
    /\ pc' = "walk"
    /\ UNCHANGED << fs, tz, exc, closes, pass, num_files, i, datafile, df, idx,
                    results, stmts, ncommitted, commits, out, calls >>

\* process_data: one iteration of the os.walk loop
WalkDir ==
    /\ pc = "walk"
    /\ stack # <<>>
    /\ LET root == Head(stack)
       IN  \E kids \in Perms(Subdirs(Tree(pass), root)),
              files \in Perms(Glob(Tree(pass), root)) :
               /\ stack' = kids \o Tail(stack)
               /\ all_files' = all_files \o files
    /\ UNCHANGED << fs, tz, pc, exc, conn, closes, pass, num_files, i, datafile,
                    df, idx, results, stmts, ncommitted, commits, out, calls >>

\* process_data: num_files and the 'files found' line
WalkEnd ==
    /\ pc = "walk"
    /\ stack = <<>>
    /\ num_files' = Len(all_files)
    /\ out' = Append(out, [ pass |-> pass, kind |-> "found", i |-> 0,
                            n |-> Len(all_files) ])
    /\ i' = 0
    /\ pc' = "loop"
    /\ UNCHANGED << fs, tz, exc, conn, closes, pass, stack, all_files, datafile,
                    df, idx, results, stmts, ncommitted, commits, calls >>

\* process_data: the next file of enumerate(all_files, 1) is passed to func
NextFile ==
    /\ pc = "loop"
    /\ i < num_files
    /\ i' = i + 1
    /\ datafile' = all_files[i + 1]
    /\ calls' = Append(calls, [ pass |-> pass, i |-> i + 1,
                                path |-> all_files[i + 1] ])
    /\ pc' = "read"
    /\ UNCHANGED << fs, tz, exc, conn, closes, pass, stack, all_files, num_files,
                    df, idx, results, stmts, ncommitted, commits, out >>

\* process_data returns to main, which starts the next call or closes
EndPass ==
    /\ pc = "loop"
    /\ i = num_files
    /\ pc' = AfterPass(pass)
    /\ IF AfterPass(pass) = "walk"
       THEN /\ pass' = pass + 1
            /\ stack' = << <<>> >>
            /\ all_files' = <<>>
       ELSE UNCHANGED << pass, stack, all_files >>
    /\ UNCHANGED << fs, tz, exc, conn, closes, num_files, i, datafile, df, idx,
                    results, stmts, ncommitted, commits, out, calls >>

\* func: pd.read_json(filepath, lines=True); a directory cannot be read
ReadJson ==
    /\ pc = "read"
    /\ IF IsDir(Tree(pass), datafile)
       THEN /\ Crash("read")
            /\ UNCHANGED df
       ELSE /\ df' = FileAt(Tree(pass), datafile).content
            /\ pc' = IF Passes[pass].func = "process_song_file"
                     THEN "song_insert" ELSE "filter"
            /\ UNCHANGED exc
    /\ UNCHANGED << fs, tz, conn, closes, pass, stack, all_files, num_files, i,
                    datafile, idx, results, stmts, ncommitted, commits, out,
                    calls >>

\* process_song_file: the songs insert; a frame without rows has no row 0
SongInsert ==
    /\ pc = "song_insert"
    /\ IF df = <<>>
       THEN /\ Crash("song_insert")
            /\ UNCHANGED stmts
       ELSE /\ stmts' = Append(stmts, Stmt("song_table_insert", SongData(df),
                                           df[1], <<>>))
            /\ pc' = "artist_insert"
            /\ UNCHANGED exc
    /\ UNCHANGED << fs, tz, conn, closes, pass, stack, all_files, num_files, i,
                    datafile, df, idx, results, ncommitted, commits, out, calls >>

\* process_song_file: the artists insert, and the return
ArtistInsert ==
    /\ pc = "artist_insert"
    /\ stmts' = Append(stmts, Stmt("artist_table_insert", ArtistData(df),
                                   df[1], <<>>))
    /\ pc' = FuncReturn
    /\ UNCHANGED << fs, tz, exc, conn, closes, pass, stack, all_files, num_files,
                    i, datafile, df, idx, results, ncommitted, commits, out,
                    calls >>

\* process_log_file: the NextSong filter; a frame of no lines has no 'page'
Filter ==
    /\ pc = "filter"
    /\ IF df = <<>>
       THEN /\ Crash("filter")
            /\ UNCHANGED << df, idx >>
       ELSE /\ df' = FilterNextSong(df)
            /\ idx' = 1
            /\ pc' = IF FilterNextSong(df) = <<>> THEN FuncReturn ELSE "time_loop"
            /\ UNCHANGED exc
    /\ UNCHANGED << fs, tz, conn, closes, pass, stack, all_files, num_files, i,
                    datafile, results, stmts, ncommitted, commits, out, calls >>

\* process_log_file: one iteration of the time insert loop
TimeInsert ==
    /\ pc = "time_loop"
    /\ stmts' = Append(stmts, Stmt("time_table_insert", TimeRow(df[idx]),
                                   df[idx], <<>>))
    /\ IF idx = Len(df)
       THEN idx' = 1 /\ pc' = "user_loop"
       ELSE idx' = idx + 1 /\ pc' = pc
    /\ UNCHANGED << fs, tz, exc, conn, closes, pass, stack, all_files, num_files,
                    i, datafile, df, results, ncommitted, commits, out, calls >>

\* process_log_file: one iteration of the user insert loop
UserInsert ==
    /\ pc = "user_loop"
    /\ stmts' = Append(stmts, Stmt("user_table_insert", UserRow(df[idx]),
                                   df[idx], <<>>))
    /\ IF idx = Len(df)
       THEN idx' = 1 /\ pc' = "select"
       ELSE idx' = idx + 1 /\ pc' = pc
    /\ UNCHANGED << fs, tz, exc, conn, closes, pass, stack, all_files, num_files,
                    i, datafile, df, results, ncommitted, commits, out, calls >>

\* process_log_file: the song lookup of one row and its fetchone
Lookup ==
    /\ pc = "select"
    /\ LET r == df[idx]
           q == << r.song, r.artist, r.length >>
           rows == SongSelect(stmts, q)
       IN  \E res \in (IF rows = {} THEN { <<>> } ELSE rows) :
               /\ results' = res
               /\ stmts' = Append(stmts, Stmt("song_select", q, r, res))
    /\ pc' = "songplay_insert"
    /\ UNCHANGED << fs, tz, exc, conn, closes, pass, stack, all_files, num_files,
                    i, datafile, df, idx, ncommitted, commits, out, calls >>

\* process_log_file: the songplay insert of one row, and the return
SongplayInsert ==
    /\ pc = "songplay_insert"
    /\ stmts' = Append(stmts, Stmt("songplay_table_insert",
                                   SongplayData(df[idx], results, tz),
                                   df[idx], <<>>))
    /\ IF idx = Len(df)
       THEN idx' = idx /\ pc' = FuncReturn
       ELSE idx' = idx + 1 /\ pc' = "select"
    /\ UNCHANGED << fs, tz, exc, conn, closes, pass, stack, all_files, num_files,
                    i, datafile, df, results, ncommitted, commits, out, calls >>

\* process_data: conn.commit()
Commit ==
    /\ pc = "commit"
    /\ ncommitted' = Len(stmts)
    /\ commits' = Append(commits, [ pass |-> pass, i |-> i ])
    /\ pc' = "print"
    /\ UNCHANGED << fs, tz, exc, conn, closes, pass, stack, all_files, num_files,
                    i, datafile, df, idx, results, stmts, out, calls >>

\* process_data: the 'i/num_files files processed.' line
PrintProgress ==
    /\ pc = "print"
    /\ out' = Append(out, [ pass |-> pass, kind |-> "processed", i |-> i,
                            n |-> num_files ])
    /\ pc' = "loop"
    /\ UNCHANGED << fs, tz, exc, conn, closes, pass, stack, all_files, num_files,
                    i, datafile, df, idx, results, stmts, ncommitted, commits,
                    calls >>

\* main: conn.close()
Close ==
    /\ pc = "close"
    /\ conn' = "closed"
    /\ closes' = closes + 1
    /\ pc' = "done"
    /\ UNCHANGED << fs, tz, exc, pass, stack, all_files, num_files, i, datafile,
                    df, idx, results, stmts, ncommitted, commits, out, calls >>

\* The database driver raises in a cur.execute or in conn.commit: the
\* statement has no effect and the exception is not caught anywhere.
Raise ==
    /\ pc \in ExecLabels \cup { "commit" }
    /\ Crash(pc)
    /\ UNCHANGED << fs, tz, conn, closes, pass, stack, all_files, num_files, i,
                    datafile, df, idx, results, stmts, ncommitted, commits, out,
                    calls >>

Next ==
    \/ Connect
    \/ WalkDir
    \/ WalkEnd
    \/ NextFile
    \/ EndPass
    \/ ReadJson
    \/ SongInsert
    \/ ArtistInsert
    \/ Filter
    \/ TimeInsert
    \/ UserInsert
    \/ Lookup
    \/ SongplayInsert
    \/ Commit
    \/ PrintProgress
    \/ Close
    \/ Raise

Spec == Init /\ [][Next]_vars

\* ------------------------------------------------- vocabulary of the claims
FuncLabels == ExecLabels \cup { "read", "filter" }

LogSql ==
    { "time_table_insert", "user_table_insert", "song_select",
      "songplay_table_insert" }

\* func returned normally on the j-th file of pass p
Returned(p, j) ==
    \/ p < pass
    \/ p = pass /\ j < i
    \/ p = pass /\ j = i /\ pc \in { "commit", "print", "loop", "close", "done" }
    \/ p = pass /\ j = i /\ pc = "crashed" /\ exc = "commit"

\* func returned normally on the j-th file of pass p and process_data went
\* past the statement that follows the call
PastCall(p, j) ==
    \/ p < pass
    \/ p = pass /\ j < i
    \/ p = pass /\ j = i /\ pc \in { "print", "loop", "close", "done" }

NumStmts(p, j, sql) ==
    Cardinality({ k \in 1..Len(stmts) :
                    stmts[k].pass = p /\ stmts[k].call = j /\ stmts[k].sql = sql })

NumCalls(p) == Cardinality({ c \in 1..Len(calls) : calls[c].pass = p })

NumCommits(p) == Cardinality({ m \in 1..Len(commits) : commits[m].pass = p })

HasFound(p) == \E m \in 1..Len(out) : out[m].pass = p /\ out[m].kind = "found"

FoundN(p) ==
    out[CHOOSE m \in 1..Len(out) : out[m].pass = p /\ out[m].kind = "found"].n

Progress(p) == SelectSeq(out, LAMBDA l : l.pass = p /\ l.kind = "processed")

ContentOf(c) == FileAt(Tree(calls[c].pass), calls[c].path).content

NextSongRows(content) == SelectSeq(content, LAMBDA r : r.page = "NextSong")

SongPass == CHOOSE p \in 1..Len(Passes) : Passes[p].func = "process_song_file"

LogPass == CHOOSE p \in 1..Len(Passes) : Passes[p].func = "process_log_file"

\* The regular files of a tree whose name matches *.json
JsonFiles(tree) ==
    { Append(f.dir, f.name) :
        f \in { g \in tree.files : FnMatch(JsonPattern, g.name) } }

\* ------------------------------------------------------------------- C1
\* C1: process_data commits per file.  A statement is committed exactly when
\* the func call that issued it returned and process_data went past the
\* commit that follows it; every such call has exactly one commit, every
\* other call none, and a call starts only after the commit of the one
\* before it.  Hence when func raises on the k-th file, the statements of
\* files 1..k-1 are committed, none of file k is, and file k is the last
\* file func was called on.
PerFileCommit ==
    /\ \A k \in 1..Len(stmts) :
          (k <= ncommitted) <=> PastCall(stmts[k].pass, stmts[k].call)
    /\ \A c \in 1..Len(calls) :
          Cardinality({ m \in 1..Len(commits) :
                          commits[m] = [ pass |-> calls[c].pass, i |-> calls[c].i ] })
            = IF PastCall(calls[c].pass, calls[c].i) THEN 1 ELSE 0
    /\ Len(commits) <= Len(calls)
    /\ \A c \in 1..(Len(calls) - 1) : PastCall(calls[c].pass, calls[c].i)
    /\ (pc = "crashed" /\ exc \in FuncLabels) =>
          /\ calls[Len(calls)].pass = pass /\ calls[Len(calls)].i = i
          /\ \A k \in 1..Len(stmts) :
                (stmts[k].pass = pass /\ stmts[k].call = i) => k > ncommitted
          /\ \A k \in 1..Len(stmts) :
                (stmts[k].pass # pass \/ stmts[k].call # i) => k <= ncommitted
          /\ NumCommits(pass) = i - 1

\* func raised in the middle of the second or a later file, after issuing
\* statements for it
PerFileCommitWitness ==
    /\ pc = "crashed"
    /\ exc \in ExecLabels
    /\ i >= 2
    /\ ncommitted > 0
    /\ Len(stmts) > ncommitted

\* ------------------------------------------------------------------- C2
\* C2: for any tree, process_data passes every file matching *.json at any
\* depth to func exactly once and nothing else; when no call fails, the
\* number of calls, of commits and the last index printed equal the
\* num_files printed first, the index running 1, 2, ..., num_files.
EveryJsonFileExactlyOnce ==
    /\ \A c \in 1..Len(calls) : calls[c].path \in JsonFiles(Tree(calls[c].pass))
    /\ \A p \in 1..Len(Passes) :
          (p < pass \/ pc \in { "close", "done" }) =>
              \A f \in JsonFiles(Tree(p)) :
                  Cardinality({ c \in 1..Len(calls) :
                                  calls[c].pass = p /\ calls[c].path = f }) = 1
    /\ pc = "done" =>
          \A p \in 1..Len(Passes) :
              /\ HasFound(p)
              /\ NumCalls(p) = FoundN(p)
              /\ NumCommits(p) = FoundN(p)
              /\ Len(Progress(p)) = FoundN(p)
              /\ \A m \in 1..Len(Progress(p)) :
                    Progress(p)[m].i = m /\ Progress(p)[m].n = FoundN(p)

\* ------------------------------------------------------------------- C3
\* C3: process_log_file drops every record whose page is not NextSong before
\* any statement: every statement of a log file is built from a NextSong
\* record, and when the call returns on a file with n NextSong records it
\* has issued exactly n time inserts, n user inserts, n lookups and n
\* songplay inserts, the k-th of each built from the k-th NextSong record.
OnlyNextSongRecords ==
    /\ \A k \in 1..Len(stmts) :
          stmts[k].sql \in LogSql => stmts[k].rec.page = "NextSong"
    /\ \A c \in 1..Len(calls) :
          (calls[c].pass = LogPass /\ Returned(calls[c].pass, calls[c].i)) =>
              LET rows == NextSongRows(ContentOf(c))
                  mine(sql) == SelectSeq(stmts, LAMBDA s :
                                  s.pass = calls[c].pass /\ s.call = calls[c].i
                                  /\ s.sql = sql)
              IN  /\ \A sql \in LogSql : Len(mine(sql)) = Len(rows)
                  /\ \A sql \in LogSql : \A k \in 1..Len(rows) :
                        mine(sql)[k].rec = rows[k]
                  /\ \A k \in 1..Len(rows) :
                        /\ mine("time_table_insert")[k].args = TimeRow(rows[k])
                        /\ mine("user_table_insert")[k].args = UserRow(rows[k])

\* a log file holding NextSong records and another record has been processed
OnlyNextSongRecordsWitness ==
    /\ pc = "commit"
    /\ Passes[pass].func = "process_log_file"
    /\ LET content == ContentOf(Len(calls))
       IN  /\ \E k \in 1..Len(content) : content[k].page # "NextSong"
           /\ Len(NextSongRows(content)) >= 1
           /\ NumStmts(pass, i, "songplay_table_insert") >= 1

\* ------------------------------------------------------------------- C4
\* C4: every songplay insert directly follows the lookup of the same record
\* by (song, artist, length); it carries the looked-up row's song_id and
\* artist_id when there is one and None for both when there is none, so
\* never one id without the other; ids it carries are those of a song and
\* an artist inserted before whose title, name and duration are the
\* record's; every lookup is followed by its songplay insert, and a call
\* that returns has inserted one songplay for each NextSong record.
SongplayCarriesLookup ==
    /\ \A k \in 1..Len(stmts) :
          stmts[k].sql = "songplay_table_insert" =>
              /\ k > 1
              /\ stmts[k - 1].sql = "song_select"
              /\ stmts[k - 1].pass = stmts[k].pass
              /\ stmts[k - 1].call = stmts[k].call
              /\ stmts[k - 1].rec = stmts[k].rec
              /\ stmts[k - 1].args
                    = << stmts[k].rec.song, stmts[k].rec.artist, stmts[k].rec.length >>
              /\ LET res == stmts[k - 1].result
                     sid == stmts[k].args[4]
                     aid == stmts[k].args[5]
                     rec == stmts[k].rec
                 IN  /\ res = <<>> => (sid = None /\ aid = None)
                     /\ res # <<>> => (sid = res[1] /\ aid = res[2])
                     /\ (sid = None) <=> (aid = None)
                     /\ sid # None =>
                          \E a, b \in 1..(k - 1) :
                              /\ stmts[a].sql = "song_table_insert"
                              /\ stmts[b].sql = "artist_table_insert"
                              /\ stmts[a].args[1] = sid
                              /\ stmts[b].args[1] = aid
                              /\ stmts[a].args[3] = aid
                              /\ stmts[a].args[2] = rec.song
                              /\ stmts[b].args[2] = rec.artist
                              /\ stmts[a].args[5] = rec.length
    /\ \A k \in 1..Len(stmts) :
          stmts[k].sql = "song_select" =>
              \/ k = Len(stmts) /\ pc \in { "songplay_insert", "crashed" }
              \/ k < Len(stmts) /\ stmts[k + 1].sql = "songplay_table_insert"
    /\ \A c \in 1..Len(calls) :
          (calls[c].pass = LogPass /\ Returned(calls[c].pass, calls[c].i)) =>
              NumStmts(calls[c].pass, calls[c].i, "songplay_table_insert")
                = Len(NextSongRows(ContentOf(c)))

\* one songplay with a looked-up song and one without have been inserted
SongplayCarriesLookupWitness ==
    /\ \E k \in 1..Len(stmts) :
          /\ stmts[k].sql = "songplay_table_insert"
          /\ stmts[k].args[4] # None
    /\ \E k \in 1..Len(stmts) :
          /\ stmts[k].sql = "songplay_table_insert"
          /\ stmts[k].args[4] = None

\* ------------------------------------------------------------------- C5
\* C5: for a song file holding r >= 1 records, process_song_file issues one
\* songs insert and one artists insert for each of the r records.
EverySongRecordInserted ==
    \A c \in 1..Len(calls) :
        (calls[c].pass = SongPass /\ Returned(calls[c].pass, calls[c].i)) =>
            /\ NumStmts(calls[c].pass, calls[c].i, "song_table_insert")
                  = Len(ContentOf(c))
            /\ NumStmts(calls[c].pass, calls[c].i, "artist_table_insert")
                  = Len(ContentOf(c))

\* ------------------------------------------------------------------- C6
\* C6: main closes the connection at most once, and exactly once when it
\* returns; the connection is closed only after both process_data calls,
\* song_data then log_data, have passed every file they found to func and
\* committed it; and no execute and no commit follows the close.
ClosedAfterBothPasses ==
    /\ closes <= 1
    /\ pc = "done" => closes = 1
    /\ (conn = "closed") <=> (closes = 1)
    /\ closes = 1 =>
          /\ \A p \in 1..Len(Passes) :
                /\ HasFound(p)
                /\ NumCalls(p) = FoundN(p)
                /\ NumCommits(p) = FoundN(p)
                /\ \A c \in 1..Len(calls) : PastCall(calls[c].pass, calls[c].i)
          /\ Passes[out[1].pass].filepath = "song_data"
          /\ Passes[out[Len(out)].pass].filepath = "log_data"
          /\ ncommitted = Len(stmts)

NoStatementAfterClose ==
    conn = "closed" =>
        /\ stmts' = stmts
        /\ commits' = commits
        /\ ncommitted' = ncommitted
        /\ closes' = closes

CloseOnceAtTheEnd == []ClosedAfterBothPasses /\ [][NoStatementAfterClose]_vars

\* main returned after both passes issued and committed statements
CloseOnceAtTheEndWitness ==
    /\ pc = "done"
    /\ conn = "closed"
    /\ \A p \in 1..Len(Passes) : NumCommits(p) >= 1
    /\ \E k \in 1..Len(stmts) : stmts[k].sql = "songplay_table_insert"

\* ------------------------------------------------------------------- C7
\* C7: for every file func is called on, process_data prints a message
\* reporting the outcome for that file, whether func returned or failed.
EveryOutcomeReported ==
    pc \in { "done", "crashed" } =>
        \A c \in 1..Len(calls) :
            \E m \in 1..Len(out) :
                /\ out[m].kind \in { "processed", "failed" }
                /\ out[m].pass = calls[c].pass
                /\ out[m].i = calls[c].i

\* ------------------------------------------------------------------- C8
\* C8: for each NextSong record, the start_time inserted into songplays is
\* the time inserted as timestamp into the time table for that record,
\* whatever the time zone of the machine.
StartTimeJoinsTime ==
    \A k \in 1..Len(stmts) :
        stmts[k].sql = "songplay_table_insert" =>
            \E m \in 1..Len(stmts) :
                /\ stmts[m].sql = "time_table_insert"
                /\ stmts[m].pass = stmts[k].pass
                /\ stmts[m].call = stmts[k].call
                /\ stmts[m].rec = stmts[k].rec
                /\ stmts[m].args[1] = stmts[k].args[1]

\* ------------------------------------------------------------------- C9
\* C9: when a song lookup has been issued, the song pass is over: every
\* file it found was passed to process_song_file, which returned after its
\* songs and artists inserts, and was committed; every songs and artists
\* insert of the run is committed and precedes every lookup.
SongsCommittedBeforeLookups ==
    (\E k \in 1..Len(stmts) : stmts[k].sql = "song_select") =>
        /\ HasFound(SongPass)
        /\ NumCalls(SongPass) = FoundN(SongPass)
        /\ NumCommits(SongPass) = FoundN(SongPass)
        /\ \A c \in 1..Len(calls) :
              calls[c].pass = SongPass =>
                  /\ PastCall(calls[c].pass, calls[c].i)
                  /\ NumStmts(calls[c].pass, calls[c].i, "song_table_insert") = 1
                  /\ NumStmts(calls[c].pass, calls[c].i, "artist_table_insert") = 1
        /\ \A m \in 1..Len(stmts) :
              stmts[m].sql \in { "song_table_insert", "artist_table_insert" } =>
                  /\ m <= ncommitted
                  /\ \A k \in 1..Len(stmts) : stmts[k].sql = "song_select" => m < k

\* a lookup was issued in a run that loaded two song files
SongsCommittedBeforeLookupsWitness ==
    /\ \E k \in 1..Len(stmts) : stmts[k].sql = "song_select"
    /\ NumCalls(SongPass) >= 2
    /\ NumStmts(SongPass, 2, "song_table_insert") = 1

====
